---- MODULE Spec2Model ----
(***************************************************************************)
(* PySholl-Pro: the pipeline of main.py (run_pipeline), the loader and     *)
(* rasterizer of src/preprocessor.py (load_swc, swc_to_binary_mask) and    *)
(* the profiler of src/analyzer.py (ShollAnalyzer).                        *)
(*                                                                         *)
(* A raster is a record [rows, cols, fg]: a numpy array of shape           *)
(* (rows, cols) whose non-zero pixels are the points <<x, y>> of fg        *)
(* (x the column, y the row, as OpenCV addresses them).                    *)
(***************************************************************************)
EXTENDS Integers, Sequences, FiniteSets

\* ------------------------------------------------------------- bounds
\* Largest node coordinate of a modelled SWC file.
MaxCoord == 1
\* Side of the square raster handed directly to a ShollAnalyzer.
MaxDim == 5

\* ------------------------------------------------------------ integers
Abs(a) == IF a < 0 THEN -a ELSE a

Min2(a, b) == IF a <= b THEN a ELSE b

Max2(a, b) == IF a >= b THEN a ELSE b

\* C and numpy integer conversion: truncation toward zero of a / b, b # 0.
TruncDiv(a, b) ==
    LET q == Abs(a) \div Abs(b)
    IN  IF (a < 0) = (b < 0) THEN q ELSE -q

\* int(np.sqrt(n)) for a small non-negative integer n.
RECURSIVE IsqrtFrom(_, _)
IsqrtFrom(n, r) == IF (r + 1) * (r + 1) > n THEN r ELSE IsqrtFrom(n, r + 1)

Isqrt(n) == IsqrtFrom(n, 0)

SetMax(S) == CHOOSE m \in S : \A e \in S : e <= m

SetMin(S) == CHOOSE m \in S : \A e \in S : m <= e

\* --------------------------------------------------------------- rasters
Zeros(rows, cols) == [rows |-> rows, cols |-> cols, fg |-> {}]

InRaster(p, rows, cols) ==
    /\ 0 <= p[1] /\ p[1] < cols
    /\ 0 <= p[2] /\ p[2] < rows

\* cv::clipLine on the rectangle (0, 0, cols, rows): the clipped end points,
\* or ok = FALSE when the segment misses the rectangle.
OutCode(x, y, right, bottom) ==
    (IF x < 0 THEN 1 ELSE 0) + (IF x > right THEN 2 ELSE 0)
      + (IF y < 0 THEN 4 ELSE 0) + (IF y > bottom THEN 8 ELSE 0)

XCode(x, right) == (IF x < 0 THEN 1 ELSE 0) + (IF x > right THEN 2 ELSE 0)

\* c1 & c2 for out codes (each bit a power of two below 16).
CodeAnd(c1, c2) ==
    LET Bit(c, b) == (c \div b) % 2
    IN  Bit(c1, 1) * Bit(c2, 1) + 2 * Bit(c1, 2) * Bit(c2, 2)
          + 4 * Bit(c1, 4) * Bit(c2, 4) + 8 * Bit(c1, 8) * Bit(c2, 8)

ClipLine(rows, cols, pt1, pt2) ==
    LET right  == cols - 1
        bottom == rows - 1
        c1 == OutCode(pt1[1], pt1[2], right, bottom)
        c2 == OutCode(pt2[1], pt2[2], right, bottom)
    IN  IF rows <= 0 \/ cols <= 0
        THEN [ok |-> FALSE, p1 |-> pt1, p2 |-> pt2]
        ELSE IF ~(CodeAnd(c1, c2) = 0 /\ (c1 # 0 \/ c2 # 0))
        THEN [ok |-> (c1 = 0 /\ c2 = 0), p1 |-> pt1, p2 |-> pt2]
        ELSE
        LET \* clip pt1 against the top or bottom edge
            a1  == IF c1 < 8 THEN 0 ELSE bottom
            v1  == c1 >= 4
            x1a == IF v1
                   THEN pt1[1] + TruncDiv((a1 - pt1[2]) * (pt2[1] - pt1[1]),
                                          pt2[2] - pt1[2])
                   ELSE pt1[1]
            y1a == IF v1 THEN a1 ELSE pt1[2]
            c1a == IF v1 THEN XCode(x1a, right) ELSE c1
            \* clip pt2 against the top or bottom edge
            a2  == IF c2 < 8 THEN 0 ELSE bottom
            v2  == c2 >= 4
            x2a == IF v2
                   THEN pt2[1] + TruncDiv((a2 - pt2[2]) * (pt2[1] - x1a),
                                          pt2[2] - y1a)
                   ELSE pt2[1]
            y2a == IF v2 THEN a2 ELSE pt2[2]
            c2a == IF v2 THEN XCode(x2a, right) ELSE c2
            again == CodeAnd(c1a, c2a) = 0 /\ (c1a # 0 \/ c2a # 0)
            \* clip pt1 against the left or right edge
            b1  == IF c1a = 1 THEN 0 ELSE right
            h1  == again /\ c1a # 0
            y1b == IF h1
                   THEN y1a + TruncDiv((b1 - x1a) * (y2a - y1a), x2a - x1a)
                   ELSE y1a
            x1b == IF h1 THEN b1 ELSE x1a
            \* clip pt2 against the left or right edge
            b2  == IF c2a = 1 THEN 0 ELSE right
            h2  == again /\ c2a # 0
            y2b == IF h2
                   THEN y2a + TruncDiv((b2 - x2a) * (y2a - y1b), x2a - x1b)
                   ELSE y2a
            x2b == IF h2 THEN b2 ELSE x2a
            c1b == IF again THEN 0 ELSE c1a
            c2b == IF again THEN 0 ELSE c2a
        IN  [ok |-> (c1b = 0 /\ c2b = 0),
             p1 |-> <<x1b, y1b>>, p2 |-> <<x2b, y2b>>]

\* cv::LineIterator (connectivity 8, leftToRight) over in-raster end points:
\* the dx + 1 points of the Bresenham walk from the leftmost end.
RECURSIVE LineWalk(_, _, _, _, _, _, _, _)
LineWalk(p, err, left, dx, dy, vert, delta_y, acc) ==
    IF left = 0 THEN acc
    ELSE LET neg == err < 0
             e2  == err - (dy + dy) + (IF neg THEN dx + dx ELSE 0)
             q   == IF vert
                    THEN <<p[1] + (IF neg THEN 1 ELSE 0), p[2] + delta_y>>
                    ELSE <<p[1] + 1, p[2] + (IF neg THEN delta_y ELSE 0)>>
         IN  LineWalk(q, e2, left - 1, dx, dy, vert, delta_y, acc \cup {p})

LineIterator(pt1, pt2) ==
    LET dx0     == pt2[1] - pt1[1]
        dy0     == pt2[2] - pt1[2]
        flip    == dx0 < 0
        start   == IF flip THEN pt2 ELSE pt1
        dx1     == Abs(dx0)
        dy1     == IF flip THEN -dy0 ELSE dy0
        delta_y == IF dy1 < 0 THEN -1 ELSE 1
        dy2     == Abs(dy1)
        vert    == dy2 > dx1
        dx      == IF vert THEN dy2 ELSE dx1
        dy      == IF vert THEN dx1 ELSE dy2
    IN  LineWalk(start, dx - (dy + dy), dx + 1, dx, dy, vert, delta_y, {})

\* cv2.line(mask, pt1, pt2, 255, thickness=1): the pixels it sets.
LinePixels(rows, cols, pt1, pt2) ==
    LET c == IF InRaster(pt1, rows, cols) /\ InRaster(pt2, rows, cols)
             THEN [ok |-> TRUE, p1 |-> pt1, p2 |-> pt2]
             ELSE ClipLine(rows, cols, pt1, pt2)
    IN  IF c.ok THEN LineIterator(c.p1, c.p2) ELSE {}

\* cv::Circle (thickness 1, LINE_8): the midpoint walk over one octant,
\* each step mirrored into the eight octants, clipped to the raster.
RECURSIVE CircleWalk(_, _, _, _, _, _, _)
CircleWalk(c, dx, dy, err, plus, minus, acc) ==
    IF dx < dy THEN acc
    ELSE LET pts  == {<<c[1] - dx, c[2] - dy>>, <<c[1] + dx, c[2] - dy>>,
                      <<c[1] - dx, c[2] + dy>>, <<c[1] + dx, c[2] + dy>>,
                      <<c[1] - dy, c[2] - dx>>, <<c[1] + dy, c[2] - dx>>,
                      <<c[1] - dy, c[2] + dx>>, <<c[1] + dy, c[2] + dx>>}
             e1   == err + plus
             over == e1 > 0
         IN  CircleWalk(c, IF over THEN dx - 1 ELSE dx, dy + 1,
                        IF over THEN e1 - minus ELSE e1, plus + 2,
                        IF over THEN minus - 2 ELSE minus, acc \cup pts)

\* cv2.circle(mask, center, radius, 255, thickness=1), radius >= 0.
CirclePixels(rows, cols, c, radius) ==
    {p \in CircleWalk(c, radius, 0, 0, 1, 2 * radius - 1, {}) :
        InRaster(p, rows, cols)}

\* cv2.connectedComponents (default connectivity 8): the number of
\* components of the foreground S. num_labels is one more (label 0).
Adjacent8(p, q) == p # q /\ Abs(p[1] - q[1]) <= 1 /\ Abs(p[2] - q[2]) <= 1

RECURSIVE Flood(_, _)
Flood(S, comp) ==
    LET more == {q \in S \ comp : \E p \in comp : Adjacent8(p, q)}
    IN  IF more = {} THEN comp ELSE Flood(S, comp \cup more)

RECURSIVE Components(_)
Components(S) ==
    IF S = {} THEN 0
    ELSE LET seed == CHOOSE p \in S : TRUE
         IN  1 + Components(S \ Flood(S, {seed}))

\* ------------------------------------------------------------ SWC files
\* A field of a line as pandas sees it: an integer, a non-numeric string,
\* or NaN (a field the line does not have).
Tok(v) == [k |-> "int", v |-> v]

StrTok == [k |-> "str", v |-> 0]

NaNTok == [k |-> "nan", v |-> 0]

\* The column names load_swc passes to read_csv, by position.
ColId == 1
ColType == 2
ColX == 3
ColY == 4
ColParent == 7
NumColumns == 7

\* SWC's "no parent" sentinel.
RootSentinel == -1

NodeLine(id, x, y, parent) ==
    [comment |-> FALSE,
     fields  |-> <<Tok(id), Tok(1), Tok(x), Tok(y), Tok(0), Tok(1), Tok(parent)>>]

CommentLine == [comment |-> TRUE, fields |-> <<>>]

Positions == (0 .. MaxCoord) \X (0 .. MaxCoord)

\* Parent ids of the nodes 1, 2, 3: a chain, a star, children listed before
\* their parents, a parent id (9) no node has, and roots only.
Topologies ==
    {<<-1, 1, 2>>, <<-1, 1, 1>>, <<2, 3, -1>>, <<-1, 9, 1>>, <<-1, -1, -1>>}

NodeFile(pos, par) == [i \in 1 .. Len(pos) |-> NodeLine(i, pos[i][1], pos[i][2], par[i])]

CleanFiles ==
    {NodeFile(pos, SubSeq(par, 1, Len(pos))) :
        pos \in UNION {[1 .. n -> Positions] : n \in 1 .. 3}, par \in Topologies}

\* Malformed and unusual variants of one three-node file.
BaseFile == NodeFile(<<<<0, 0>>, <<1, 0>>, <<1, 1>>>>, <<-1, 1, 2>>)

WithField(file, i, col, tok) ==
    [file EXCEPT ![i].fields = [@ EXCEPT ![col] = tok]]

DefectFiles ==
    { \* line 2 has 6 fields
      [BaseFile EXCEPT ![2].fields = SubSeq(@, 1, 6)],
      \* line 2 has 8 fields
      [BaseFile EXCEPT ![2].fields = Append(@, Tok(0))],
      \* line 1 has 8 fields
      [BaseFile EXCEPT ![1].fields = <<Tok(0)>> \o @],
      \* a non-numeric field in each column the rasterizer reads or ignores
      WithField(BaseFile, 1, ColType, StrTok),
      WithField(BaseFile, 2, ColX, StrTok),
      WithField(BaseFile, 2, ColY, StrTok),
      WithField(BaseFile, 2, ColId, StrTok),
      WithField(BaseFile, 3, ColParent, StrTok),
      \* a header comment
      <<CommentLine>> \o BaseFile }

Files == CleanFiles \cup DefectFiles

DataLines(file) == SelectSeq(file, LAMBDA l : ~l.comment)

\* A line is well formed when it has exactly 7 numeric fields.
WellFormedLine(l) ==
    /\ Len(l.fields) = NumColumns
    /\ \A j \in 1 .. Len(l.fields) : l.fields[j].k = "int"

Malformed(file) == \E i \in 1 .. Len(file) : ~file[i].comment /\ ~WellFormedLine(file[i])

\* pd.read_csv(file_path, sep=r'\s+', comment='#', names=columns): comment
\* lines are skipped; the tokenizer expects max(fields of the first line, 7)
\* fields, raises ParserError on a later line with more, and fills a shorter
\* line with NaN; columns beyond the 7 names lead the row as its index.
ReadCsv(file) ==
    LET data     == DataLines(file)
        expected == Max2(Len(data[1].fields), NumColumns)
        lead     == expected - NumColumns
        Padded(f) == [j \in 1 .. expected |-> IF j <= Len(f) THEN f[j] ELSE NaNTok]
        Row(f)   == SubSeq(Padded(f), lead + 1, expected)
    IN  IF \E i \in 2 .. Len(data) : Len(data[i].fields) > expected
        THEN [ok |-> FALSE, rows |-> <<>>]
        ELSE [ok |-> TRUE, rows |-> [i \in 1 .. Len(data) |-> Row(data[i].fields)]]

\* A column holding a non-numeric string has dtype object: every value of
\* it is a string.
ObjectColumn(rows, col) == \E i \in 1 .. Len(rows) : rows[i][col].k = "str"

\* int(value) of a row's field: defined for an integer (also as a string of
\* an object column), ValueError for NaN and for a non-numeric string.
IntOk(tok) == tok.k = "int"

\* ----------------------------------------------------------- the state
VARIABLES
    pc,            \* the statement run_pipeline (or the analyzer's caller) is at
    err,           \* the exception that reached the caller, "none" if none
    cfg,           \* the configuration and the input file
    df,            \* load_swc's DataFrame: the rows, 7 fields each
    scale,         \* swc_to_binary_mask's bounding box and scale
    norm,          \* the rows' (norm_x, norm_y)
    node_map,      \* id -> pixel
    mask,          \* the canvas of swc_to_binary_mask, then run_pipeline's mask
    row,           \* the row the drawing loop is at
    drawn,         \* the rows cv2.line was called for
    mask_file,     \* what cv2.imwrite stored
    an,            \* the ShollAnalyzer's attributes
    radii,         \* compute_profile's radii
    k,             \* the radius the loop is at
    scratch,       \* _count_intersections' circle mask
    intersections, \* compute_profile's counts
    calls,         \* the radii _count_intersections was called with
    results,       \* compute_profile's DataFrame: <<radius, count>> pairs
    csv            \* what to_csv stored

pre  == <<df, scale, norm, node_map, mask, row, drawn>>
prof == <<radii, k, scratch, intersections, calls, results>>
vars == <<pc, err, cfg, df, scale, norm, node_map, mask, row, drawn, mask_file,
          an, radii, k, scratch, intersections, calls, results, csv>>

NoScale == [kind |-> "unset", min_x |-> 0, min_y |-> 0, num |-> 0, den |-> 0]

NoRaster == Zeros(0, 0)

NoAnalyzer ==
    [image |-> NoRaster, center |-> <<0, 0>>, start_radius |-> 0,
     step_size |-> 0, max_radius |-> 0]

\* Mutant: the exception is caught and logged, as the modules' own test
\* blocks do, and the pipeline goes on to its next step.
RaiseCaught(e) == pc' = "analyzer" /\ err' = e

\* An exception leaves the function and, nothing catching it, the caller.
Raise(e) == pc' = "failed" /\ err' = e

\* ----------------------------------------------------------- load_swc
\* main.py:14 -> preprocessor.py:34 -> load_swc.
LoadSwc ==
    /\ pc = "load"
    /\ IF ~cfg.exists
       THEN Raise("FileNotFoundError") /\ df' = df
       ELSE LET r == ReadCsv(cfg.file)
            IN  IF r.ok
                THEN pc' = "scale" /\ err' = err /\ df' = r.rows
                ELSE Raise("ParserError") /\ df' = df
    /\ UNCHANGED <<cfg, scale, norm, node_map, mask, row, drawn, mask_file, an,
                   csv>>
    /\ UNCHANGED prof

\* ------------------------------------------------- swc_to_binary_mask
Column(rows, col) == {rows[i][col].v : i \in {j \in 1 .. Len(rows) : rows[j][col].k = "int"}}

\* Lines 38-44: the bounding box and the scale. Subtracting two strings (the
\* min and max of an object column) is a TypeError; dividing by a numpy zero
\* gives inf (nan for 0 / 0) and a warning, no exception.
Scale(rows, img_size, padding) ==
    LET min_x  == SetMin(Column(rows, ColX))
        min_y  == SetMin(Column(rows, ColY))
        width  == SetMax(Column(rows, ColX)) - min_x
        height == SetMax(Column(rows, ColY)) - min_y
        num    == Min2(img_size[1], img_size[2]) - 2 * padding
        den    == Max2(width, height)
    IN  [kind  |-> IF den # 0 THEN "finite" ELSE IF num = 0 THEN "nan" ELSE "inf",
         min_x |-> min_x, min_y |-> min_y, num |-> num, den |-> den]

ComputeScale ==
    /\ pc = "scale"
    /\ IF ObjectColumn(df, ColX) \/ ObjectColumn(df, ColY)
       THEN Raise("TypeError") /\ scale' = scale
       ELSE pc' = "norm" /\ err' = err
            /\ scale' = Scale(df, cfg.img_size, cfg.padding)
    /\ UNCHANGED <<cfg, df, norm, node_map, mask, row, drawn, mask_file, an, csv>>
    /\ UNCHANGED prof

\* ((coord - min) * scale + padding).astype(int) for a finite scale.
NormCoord(coord, min, sc, padding) ==
    TruncDiv((coord - min) * sc.num + padding * sc.den, sc.den)

\* Lines 47-48. With a zero bounding box every (coord - min) * scale is
\* 0 * inf = nan, which astype(int) refuses (IntCastingNaNError).
Normalize ==
    /\ pc = "norm"
    /\ IF scale.kind # "finite"
          \/ \E i \in 1 .. Len(df) : ~IntOk(df[i][ColX]) \/ ~IntOk(df[i][ColY])
       THEN Raise("IntCastingNaNError") /\ norm' = norm
       ELSE pc' = "canvas" /\ err' = err
            /\ norm' = [i \in 1 .. Len(df) |->
                         <<NormCoord(df[i][ColX].v, scale.min_x, scale, cfg.padding),
                           NormCoord(df[i][ColY].v, scale.min_y, scale, cfg.padding)>>]
    /\ UNCHANGED <<cfg, df, scale, node_map, mask, row, drawn, mask_file, an, csv>>
    /\ UNCHANGED prof

\* Line 51: np.zeros(img_size) has img_size[0] rows and img_size[1] columns.
Canvas(img_size) == Zeros(img_size[1], img_size[2])

\* Line 55: the dict comprehension keeps, per id, the last row with it.
NodeMap(rows, pix) ==
    [id \in {rows[i][ColId].v : i \in 1 .. Len(rows)} |->
        pix[SetMax({i \in 1 .. Len(rows) : rows[i][ColId].v = id})]]

\* Lines 51-55: the canvas and the id -> pixel mapping.
CreateCanvas ==
    /\ pc = "canvas"
    /\ IF \E i \in 1 .. Len(df) : ~IntOk(df[i][ColId])
       THEN Raise("ValueError") /\ UNCHANGED <<mask, node_map, row>>
       ELSE pc' = "draw" /\ err' = err
            /\ mask' = Canvas(cfg.img_size)
            /\ node_map' = NodeMap(df, norm)
            /\ row' = 1
    /\ UNCHANGED <<cfg, df, scale, norm, drawn, mask_file, an, csv>>
    /\ UNCHANGED prof

\* Line 59: the parent id resolves.
Resolves(parent_id, map) == parent_id \in DOMAIN map

\* Mutant: the segment replaces the canvas's foreground instead of joining it.
DrawLineOverwrite(canvas, pt1, pt2) ==
    [canvas EXCEPT !.fg = LinePixels(canvas.rows, canvas.cols, pt1, pt2)]

\* Line 63: cv2.line paints the segment onto the canvas.
DrawLine(canvas, pt1, pt2) ==
    [canvas EXCEPT !.fg = @ \cup LinePixels(canvas.rows, canvas.cols, pt1, pt2)]

\* Lines 57-63, one row of the loop.
DrawRow ==
    /\ pc = "draw"
    /\ row <= Len(df)
    /\ IF ~IntOk(df[row][ColParent])
       THEN Raise("ValueError") /\ UNCHANGED <<mask, row, drawn>>
       ELSE LET parent_id == df[row][ColParent].v
            IN  /\ pc' = pc /\ err' = err
                /\ row' = row + 1
                /\ IF Resolves(parent_id, node_map)
                   THEN /\ mask' = DrawLine(mask, node_map[parent_id], norm[row])
                        /\ drawn' = drawn \cup {row}
                   ELSE UNCHANGED <<mask, drawn>>
    /\ UNCHANGED <<cfg, df, scale, norm, node_map, mask_file, an, csv>>
    /\ UNCHANGED prof

\* Lines 65-66, then main.py:15: the mask is returned and written.
ImWrite ==
    /\ pc = "draw"
    /\ row > Len(df)
    /\ pc' = "analyzer"
    /\ mask_file' = mask
    /\ UNCHANGED <<err, cfg, an, csv>>
    /\ UNCHANGED pre
    /\ UNCHANGED prof

\* -------------------------------------------------------- ShollAnalyzer
\* Line 23: center or (image.shape[1] // 2, image.shape[0] // 2).
DefaultCenter(image) == <<image.cols \div 2, image.rows \div 2>>

\* _calculate_max_radius: the floor of the largest distance from the center
\* to a corner (0, 0), (w, 0), (0, h), (w, h).
CalculateMaxRadius(image, c) ==
    LET h == image.rows
        w == image.cols
        corners == {<<0, 0>>, <<w, 0>>, <<0, h>>, <<w, h>>}
        Sq(a) == a * a
    IN  Isqrt(SetMax({Sq(q[1] - c[1]) + Sq(q[2] - c[2]) : q \in corners}))

\* __init__ (main.py:19-23 passes no center; a direct caller may).
AnalyzerInit ==
    /\ pc = "analyzer"
    /\ LET c == IF cfg.has_center THEN cfg.center ELSE DefaultCenter(mask)
       IN  an' = [image |-> mask, center |-> c,
                  start_radius |-> cfg.start_radius,
                  step_size |-> cfg.step_size,
                  max_radius |-> CalculateMaxRadius(mask, c)]
    /\ pc' = "profile"
    /\ UNCHANGED <<err, cfg, mask_file, csv>>
    /\ UNCHANGED pre
    /\ UNCHANGED prof

\* list(range(start, stop, step)) for step # 0.
RangeLen(start, stop, step) ==
    IF step > 0
    THEN (IF start >= stop THEN 0 ELSE (stop - start + step - 1) \div step)
    ELSE (IF start <= stop THEN 0 ELSE (start - stop - step - 1) \div (-step))

Range(start, stop, step) ==
    [i \in 1 .. RangeLen(start, stop, step) |-> start + (i - 1) * step]

\* compute_profile, lines 60-63; range() with a zero step is a ValueError.
ComputeProfileStart ==
    /\ pc = "profile"
    /\ IF an.step_size = 0
       THEN Raise("ValueError") /\ UNCHANGED <<radii, k, intersections>>
       ELSE /\ pc' = "loop" /\ err' = err
            /\ radii' = Range(an.start_radius, an.max_radius, an.step_size)
            /\ intersections' = <<>>
            /\ k' = 1
    /\ UNCHANGED <<cfg, mask_file, an, scratch, calls, results, csv>>
    /\ UNCHANGED pre

\* Mutant: one circle mask is allocated and used again for every radius.
ZerosLikeReused(image) ==
    IF scratch.rows = image.rows /\ scratch.cols = image.cols
    THEN scratch
    ELSE Zeros(image.rows, image.cols)

\* _count_intersections, line 40: a blank mask for the circle.
ZerosLike(image) == Zeros(image.rows, image.cols)

CountAlloc ==
    /\ pc = "loop"
    /\ k <= Len(radii)
    /\ scratch' = ZerosLike(an.image)
    /\ calls' = Append(calls, radii[k])
    /\ pc' = "circle"
    /\ UNCHANGED <<err, cfg, mask_file, an, radii, k, intersections, results, csv>>
    /\ UNCHANGED pre

\* Line 43: cv2.circle asserts radius >= 0 (cv2.error otherwise).
DrawCircle(canvas, c, radius) ==
    [canvas EXCEPT !.fg = @ \cup CirclePixels(canvas.rows, canvas.cols, c, radius)]

CountCircle ==
    /\ pc = "circle"
    /\ IF radii[k] < 0
       THEN Raise("cv2.error") /\ scratch' = scratch
       ELSE /\ pc' = "count" /\ err' = err
            /\ scratch' = DrawCircle(scratch, an.center, radii[k])
    /\ UNCHANGED <<cfg, mask_file, an, radii, k, intersections, calls, results, csv>>
    /\ UNCHANGED pre

\* Line 46: cv2.bitwise_and(self.image, mask).
BitwiseAnd(a, b) == a.fg \cap b.fg

\* Mutant: the background's label is counted as an intersection.
CountLabelsWithBackground(points) == Components(points) + 1

\* Lines 50-53: the labels found, less the background's.
CountLabels(points) ==
    LET num_labels == Components(points) + 1
    IN  Max2(0, num_labels - 1)

\* Lines 46-54 and 67: the count of this radius joins the list.
CountComponents ==
    /\ pc = "count"
    /\ intersections' = Append(intersections, CountLabels(BitwiseAnd(an.image, scratch)))
    /\ k' = k + 1
    /\ pc' = "loop"
    /\ UNCHANGED <<err, cfg, mask_file, an, radii, scratch, calls, results, csv>>
    /\ UNCHANGED pre

\* Lines 69-75: the DataFrame of the radii and their counts.
Profile(rs, counts) == [i \in 1 .. Len(rs) |-> <<rs[i], counts[i]>>]

ComputeProfileReturn ==
    /\ pc = "loop"
    /\ k > Len(radii)
    /\ results' = Profile(radii, intersections)
    /\ pc' = "returned"
    /\ UNCHANGED <<err, cfg, mask_file, an, radii, k, scratch, intersections,
                   calls, csv>>
    /\ UNCHANGED pre

\* ---------------------------------------------------------- run_pipeline
\* main.py:25.
ToCsv ==
    /\ pc = "returned"
    /\ csv' = results
    /\ pc' = "plot"
    /\ UNCHANGED <<err, cfg, mask_file, an>>
    /\ UNCHANGED pre
    /\ UNCHANGED prof

\* main.py:29-30: plot_sholl_profile reads the csv and writes the report.
Plot ==
    /\ pc = "plot"
    /\ pc' = "done"
    /\ UNCHANGED <<err, cfg, mask_file, an, csv>>
    /\ UNCHANGED pre
    /\ UNCHANGED prof

\* ------------------------------------------------------ specifications
\* swc_to_binary_mask's img_size (run_pipeline leaves it at its default, a
\* square; scaled down here) and the configuration's knobs.
ImgSizes == {<<4, 4>>, <<4, 6>>, <<6, 4>>}

Paddings == {0, 1}

PipelineRadii == {<<1, 1>>, <<0, 2>>, <<1, 0>>, <<-1, 1>>}

NoFile == <<>>

InitCommon ==
    /\ err = "none"
    /\ df = <<>>
    /\ scale = NoScale
    /\ norm = <<>>
    /\ node_map = <<>>
    /\ row = 0
    /\ drawn = {}
    /\ mask_file = NoRaster
    /\ an = NoAnalyzer
    /\ radii = <<>>
    /\ k = 0
    /\ scratch = NoRaster
    /\ intersections = <<>>
    /\ calls = <<>>
    /\ results = <<>>
    /\ csv = <<>>

\* run_pipeline on a configuration naming a file that may not exist.
Init ==
    /\ pc = "load"
    /\ mask = NoRaster
    /\ \E exists \in BOOLEAN, size \in ImgSizes, pad \in Paddings, rr \in PipelineRadii :
         \E file \in IF exists THEN Files ELSE {NoFile} :
           cfg = [exists |-> exists, file |-> file, img_size |-> size,
                  padding |-> pad, has_center |-> FALSE, center |-> <<0, 0>>,
                  start_radius |-> rr[1], step_size |-> rr[2]]
    /\ InitCommon

Next ==
    \/ LoadSwc
    \/ ComputeScale
    \/ Normalize
    \/ CreateCanvas
    \/ DrawRow
    \/ ImWrite
    \/ AnalyzerInit
    \/ ComputeProfileStart
    \/ CountAlloc
    \/ CountCircle
    \/ CountComponents
    \/ ComputeProfileReturn
    \/ ToCsv
    \/ Plot

Spec == Init /\ [][Next]_vars

\* A ShollAnalyzer built directly on a skeleton raster: every one-pixel
\* segment between two pixels of a raster, every pair of segments leaving
\* the raster's centre, the empty and the full raster.
Shapes == {<<MaxDim, MaxDim>>, <<MaxDim - 1, MaxDim + 1>>}

Grid(shape) == (0 .. shape[2] - 1) \X (0 .. shape[1] - 1)

Before(p, q) == p[1] < q[1] \/ (p[1] = q[1] /\ p[2] <= q[2])

Segment(shape, p, q) ==
    [rows |-> shape[1], cols |-> shape[2], fg |-> LinePixels(shape[1], shape[2], p, q)]

Segments(shape) ==
    {Segment(shape, e[1], e[2]) : e \in {d \in Grid(shape) \X Grid(shape) : Before(d[1], d[2])}}

Branches(shape) ==
    LET c == <<shape[2] \div 2, shape[1] \div 2>>
    IN  {[rows |-> shape[1], cols |-> shape[2],
          fg |-> LinePixels(shape[1], shape[2], c, e[1])
                   \cup LinePixels(shape[1], shape[2], c, e[2])] :
            e \in {d \in Grid(shape) \X Grid(shape) : Before(d[1], d[2])}}

Skeletons ==
    UNION {Segments(shape) \cup Branches(shape)
             \cup {Zeros(shape[1], shape[2]),
                   [rows |-> shape[1], cols |-> shape[2], fg |-> Grid(shape)]} :
           shape \in Shapes}

Centers == {<<1, 1>>}

StartRadii == {-1, 0, 1, 2, MaxDim + 1}

StepSizes == {-1, 0, 1, 2}

InitAnalyzer ==
    /\ pc = "analyzer"
    /\ mask \in Skeletons
    /\ \E has_center \in BOOLEAN, start \in StartRadii, step \in StepSizes :
         \E c \in IF has_center THEN Centers ELSE {<<0, 0>>} :
           cfg = [exists |-> TRUE, file |-> NoFile,
                  img_size |-> <<mask.rows, mask.cols>>, padding |-> 0,
                  has_center |-> has_center, center |-> c,
                  start_radius |-> start, step_size |-> step]
    /\ InitCommon

NextAnalyzer ==
    \/ AnalyzerInit
    \/ ComputeProfileStart
    \/ CountAlloc
    \/ CountCircle
    \/ CountComponents
    \/ ComputeProfileReturn

SpecAnalyzer == InitAnalyzer /\ [][NextAnalyzer]_vars

\* ------------------------------------------------------------- claims
Returned == pc = "returned"

Radius(i) == results[i][1]

Count(i) == results[i][2]

\* The skeleton is one straight segment through the centre, from
\* centre - d to centre + d (half-length |d|).
Offsets == (-MaxDim .. MaxDim) \X (-MaxDim .. MaxDim)

LineThroughCenter(d) ==
    LET c  == an.center
        p1 == <<c[1] - d[1], c[2] - d[2]>>
        p2 == <<c[1] + d[1], c[2] + d[2]>>
    IN  /\ d # <<0, 0>>
        /\ InRaster(p1, an.image.rows, an.image.cols)
        /\ InRaster(p2, an.image.rows, an.image.cols)
        /\ an.image.fg = LinePixels(an.image.rows, an.image.cols, p1, p2)

TwoCrossings(d) ==
    \A i \in 1 .. Len(results) :
        LET half2 == d[1] * d[1] + d[2] * d[2]
        IN  /\ (0 < Radius(i) /\ Radius(i) * Radius(i) < half2) => Count(i) = 2
            /\ Radius(i) * Radius(i) > half2 => Count(i) = 0

\* C6 (as stated): a skeleton that is one straight segment through the
\* centre, in any direction, has 2 intersections at every sampled radius
\* strictly between 0 and its half-length and 0 at every one beyond it.
C6_StraightLineTwoCrossings ==
    Returned => \A d \in Offsets : LineThroughCenter(d) => TwoCrossings(d)

\* start, start + step, start + 2 * step, ... below max_radius (step > 0).
SweepRadii ==
    {r \in an.start_radius .. an.max_radius - 1 :
        (r - an.start_radius) % an.step_size = 0}

\* C1 (as stated): every radius of the profile is at least the start
\* radius and less than max_radius, for a positive step the radii are exactly
\* start, start + step, ... below max_radius, and a start radius at or beyond
\* max_radius ends in an empty profile, not in an error.

C1_RadiiWithinSweep ==
    /\ Returned =>
         /\ \A i \in 1 .. Len(results) :
               an.start_radius <= Radius(i) /\ Radius(i) < an.max_radius
         /\ an.step_size > 0 => {Radius(i) : i \in 1 .. Len(results)} = SweepRadii
    /\ (pc \in {"returned", "failed"} /\ an.start_radius >= an.max_radius) =>
         (Returned /\ results = <<>>)

\* C9 (as stated): whatever start radius and step size the analyzer was
\* built with, the returned profile is strictly increasing in radius,
\* consecutive radii differ by the step size, and no count is negative.
C9_ProfileStrictlyIncreasing ==
    Returned =>
      /\ \A i \in 1 .. Len(results) - 1 :
            /\ Radius(i) < Radius(i + 1)
            /\ Radius(i + 1) - Radius(i) = an.step_size
      /\ \A i \in 1 .. Len(results) : Count(i) >= 0

\* The pixels cv2.circle sets for radius r on a raster of the image's shape.
OutlineSize(r) ==
    Cardinality(CirclePixels(an.image.rows, an.image.cols, an.center, r))

\* C5: every count _count_intersections returned is at least 0 and at most
\* the number of pixels of the circle outline drawn for its radius (the
\* scratch raster still holds the outline of the radius just counted).

C5_CountWithinOutline ==
    /\ \A i \in 1 .. Len(intersections) :
          0 <= intersections[i] /\ intersections[i] <= OutlineSize(radii[i])
    /\ (pc = "loop" /\ k > 1) => intersections[k - 1] <= Cardinality(scratch.fg)

\* A radius was counted whose outline lies partly outside the raster and
\* meets the skeleton in two places.
C5_Witness ==
    /\ pc = "loop" /\ k > 1
    /\ intersections[k - 1] = 2
    /\ Cardinality(scratch.fg) > 2
    /\ Cardinality(scratch.fg) < 4 * radii[k - 1]

\* The count of radius r on its own: the components the outline of r alone
\* shares with the skeleton.
CountAlone(image, c, r) ==
    Components(image.fg \cap CirclePixels(image.rows, image.cols, c, r))

\* C10: counting leaves the skeleton raster as it was given; each radius
\* starts from an all-background scratch raster of the skeleton's shape and
\* holds only its own outline; and each recorded count is the count of its
\* radius alone, whatever radii were counted before it, so the profile
\* depends on the radii only.

C10_RadiiIndependent ==
    /\ pc # "analyzer" => an.image = mask
    /\ pc = "circle" =>
         scratch = [rows |-> an.image.rows, cols |-> an.image.cols, fg |-> {}]
    /\ pc = "count" =>
         scratch.fg = CirclePixels(an.image.rows, an.image.cols, an.center, radii[k])
    /\ \A i \in 1 .. Len(intersections) :
          intersections[i] = CountAlone(mask, an.center, radii[i])
    /\ Returned =>
         results = [i \in 1 .. Len(radii) |-> <<radii[i], CountAlone(mask, an.center, radii[i])>>]

\* A profile of at least three radii was returned whose counts differ.
C10_Witness ==
    /\ Returned
    /\ Len(results) >= 3
    /\ Count(1) # Count(2)
    /\ Count(3) > 0

\* Every node of a well-formed file has the same x and the same y.
Degenerate(file) ==
    /\ ~Malformed(file)
    /\ \A i, j \in 1 .. Len(file) :
          (~file[i].comment /\ ~file[j].comment) =>
             /\ file[i].fields[ColX] = file[j].fields[ColX]
             /\ file[i].fields[ColY] = file[j].fields[ColY]

\* C2 (as stated): a file whose nodes all have the same x and the same y
\* fails with DegenerateGeometry before the scale is computed.
C2_DegenerateGeometryRaised ==
    (cfg.exists /\ Degenerate(cfg.file) /\ pc \notin {"load", "scale"}) =>
       (pc = "failed" /\ err = "DegenerateGeometry" /\ scale = NoScale)

\* C3 (as stated): a file with a line that has not exactly 7 numeric fields
\* makes load_swc fail with ParseError; it never returns rows for it.
C3_MalformedLineIsParseError ==
    (cfg.exists /\ Malformed(cfg.file) /\ pc # "load") =>
       (pc = "failed" /\ err = "ParserError" /\ df = <<>>)

\* C4 (as stated): the raster swc_to_binary_mask returns for the canvas size
\* (width, height) has width columns and height rows.
C4_RasterHasCanvasSize ==
    pc \in {"analyzer", "profile", "loop", "circle", "count", "returned", "plot", "done"} =>
       (mask.cols = cfg.img_size[1] /\ mask.rows = cfg.img_size[2])

\* Some row of the DataFrame has this id.
HasNode(id) == \E j \in 1 .. Len(df) : df[j][ColId] = Tok(id)

SegmentOf(i) ==
    LinePixels(mask.rows, mask.cols, node_map[df[i][ColParent].v], norm[i])

RECURSIVE DrawInOrder(_, _)
DrawInOrder(order, canvas) ==
    IF order = <<>> THEN canvas
    ELSE LET i == Head(order)
         IN  DrawInOrder(Tail(order),
                 IF Resolves(df[i][ColParent].v, node_map)
                 THEN DrawLine(canvas, node_map[df[i][ColParent].v], norm[i])
                 ELSE canvas)

Orders(n) == {o \in [1 .. n -> 1 .. n] : \A a, b \in 1 .. n : o[a] = o[b] => a = b}

\* C7: cv2.line is called for a row exactly when its parent id is the id of
\* some row; the canvas holds the segments of those rows and nothing else,
\* so a row whose parent is the sentinel or an absent id adds no pixel; and
\* painting the rows' edges in any order gives the raster that was returned.
C7_EdgesOfResolvedParents ==
    pc \in {"draw", "analyzer"} =>
       /\ \A i \in 1 .. row - 1 : (i \in drawn) <=> HasNode(df[i][ColParent].v)
       /\ mask.fg = UNION {SegmentOf(i) : i \in drawn}
       /\ \A i \in 1 .. row - 1 :
             df[i][ColParent].v = RootSentinel => i \notin drawn
       /\ pc = "analyzer" =>
             \A o \in Orders(Len(df)) : DrawInOrder(o, Canvas(cfg.img_size)) = mask

\* A raster was returned that holds two different segments, of a file with
\* a root and with a node whose parent id no node has.
C7_Witness ==
    /\ pc = "analyzer"
    /\ \E i \in 1 .. Len(df) : df[i][ColParent].v = RootSentinel
    /\ \E i \in drawn, j \in drawn : SegmentOf(i) # SegmentOf(j)
    /\ \E i \in drawn : ~(mask.fg \subseteq SegmentOf(i))

\* An exception was raised before swc_to_binary_mask returned its mask.
FailedUpstream == err # "none" /\ mask_file = NoRaster

\* C8: when loading or rasterizing failed (the mask was never returned and
\* written), the exception has reached run_pipeline's caller, and no radius
\* was processed: _count_intersections was not called and no profile,
\* partial or complete, was produced or written.

C8_UpstreamFailureStopsPipeline ==
    FailedUpstream =>
       /\ pc = "failed"
       /\ calls = <<>> /\ intersections = <<>> /\ radii = <<>>
       /\ results = <<>> /\ csv = <<>>
       /\ an = NoAnalyzer

\* The drawing loop failed on a later row, after an edge was painted.
C8_Witness ==
    /\ FailedUpstream
    /\ err = "ValueError"
    /\ drawn # {}

====
